---- MODULE Spec2Model ----
(***************************************************************************)
(* Battle simulation engine of tinygocha (package internal/game):          *)
(* Unit, AIBehavior, Group, Army and BattleManager.                        *)
(*                                                                         *)
(* Representation.  The engine computes with float64.  The model uses      *)
(* integers: a length is counted in 1/80 pixel (Px), a time in 1/20 second *)
(* (so DecisionCooldown 0.1 s = 2 and AttackCooldown 1.0 s = 20), a size   *)
(* multiplier in tenths.  All units of a battle stand on one horizontal    *)
(* line (same Y), where Distance and Normalize are exact in integers.      *)
(***************************************************************************)
EXTENDS Integers, Sequences, FiniteSets, TLC

VARIABLES units, groups, armies, BattleTime, TimeLimit, IsActive, Winner,
          nextUnitID, battles, log, scenes

vars == <<units, groups, armies, BattleTime, TimeLimit, IsActive, Winner,
          nextUnitID, battles, log, scenes>>

-----------------------------------------------------------------------------
(* Bounds *)

\* number of StartBattle calls explored
MaxBattles == 2

\* largest frame time given to Update, in 1/20 s
MaxDt == 2

-----------------------------------------------------------------------------
(* Scalar helpers and vector math *)

Px(n) == 80 * n

Abs(n) == IF n < 0 THEN -n ELSE n

Sign(n) == IF n < 0 THEN -1 ELSE IF n > 0 THEN 1 ELSE 0

Min(a, b) == IF a < b THEN a ELSE b

Max(a, b) == IF a > b THEN a ELSE b

Isqrt(n) == CHOOSE r \in 0..n : r * r <= n /\ (r + 1) * (r + 1) > n

Vec(x, y) == [X |-> x, Y |-> y]

Add(v, w) == Vec(v.X + w.X, v.Y + w.Y)

Sub(v, w) == Vec(v.X - w.X, v.Y - w.Y)

Length(v) ==
    IF v.Y = 0 THEN Abs(v.X)
    ELSE IF v.X = 0 THEN Abs(v.Y)
    ELSE Isqrt(v.X * v.X + v.Y * v.Y)

Distance(v, w) == Length(Sub(v, w))

\* v.Normalize().Mul(s): the zero vector stays the zero vector
NormalizeMul(v, s) ==
    IF Length(v) = 0 THEN Vec(0, 0)
    ELSE IF v.Y = 0 THEN Vec(Sign(v.X) * s, 0)
    ELSE IF v.X = 0 THEN Vec(0, Sign(v.Y) * s)
    ELSE Vec((v.X * s) \div Length(v), (v.Y * s) \div Length(v))

\* left fold of a sequence
Fold(Op(_, _), base, s) ==
    LET f[i \in 0..Len(s)] == IF i = 0 THEN base ELSE Op(f[i - 1], s[i])
    IN  f[Len(s)]

-----------------------------------------------------------------------------
(* Program constants *)

DecisionCooldown == 2

AttackCooldownInit == 20

SightRange == Px(5000)

AIActionIdle == "Idle"
AIActionApproach == "Approach"
AIActionRetreat == "Retreat"
AIActionAttack == "Attack"
AIActionHold == "Hold"

AIActions == {AIActionIdle, AIActionApproach, AIActionRetreat, AIActionAttack, AIActionHold}

UnitTypeInfantry == "infantry"
UnitTypeArcher == "archer"
UnitTypeMage == "mage"

\* nil pointer to a unit
Nil == 0

-----------------------------------------------------------------------------
(* AIBehavior construction *)

PreferredRangeOf(unitType) ==
    CASE unitType = UnitTypeInfantry -> Px(15)
      [] unitType = UnitTypeArcher -> Px(600)
      [] unitType = UnitTypeMage -> Px(480)
      [] unitType = "heavy_infantry" -> Px(20)
      [] unitType = "cavalry" -> Px(25)
      [] OTHER -> Px(15)

NewAIBehavior(unitType) ==
    [TargetEnemy |-> Nil,
     PreferredRange |-> PreferredRangeOf(unitType),
     LastDecisionTime |-> 0,
     DecisionCooldown |-> DecisionCooldown,
     CurrentAction |-> AIActionIdle]

-----------------------------------------------------------------------------
(* Unit *)

\* config: [HP, Attack, Defense, Speed, Range, MagicPower, Size]; Speed is the
\* distance covered in 1/20 s, Size is in tenths
NewUnit(id, unitType, config, isLeader, groupID, armyID) ==
    [ID |-> id,
     Type |-> unitType,
     HP |-> config.HP,
     MaxHP |-> config.HP,
     AttackPower |-> config.Attack,
     Defense |-> config.Defense,
     Speed |-> config.Speed,
     Range |-> config.Range,
     MagicPower |-> config.MagicPower,
     Size |-> config.Size,
     Position |-> Vec(0, 0),
     Target |-> Vec(0, 0),
     IsLeader |-> isLeader,
     IsAlive |-> TRUE,
     IsRetreating |-> FALSE,
     GroupID |-> groupID,
     ArmyID |-> armyID,
     LastAttackTime |-> 0,
     AttackCooldown |-> AttackCooldownInit,
     AI |-> NewAIBehavior(unitType)]

\* baseRadius 3.0 px times the size multiplier (tenths): 240 * Size / 10
GetCollisionRadius(u) == 24 * u.Size

GetSightRange(u) == SightRange

\* CanAttack without the IsAlive test
CanAttackDead(u) == u.LastAttackTime <= 0

CanAttack(u) == u.IsAlive /\ u.LastAttackTime <= 0

\* Unit.Update without the clamp of the cooldown at 0
UnitUpdateNoClamp(u, dt) ==
    IF ~u.IsAlive THEN u
    ELSE LET cd == IF u.LastAttackTime > 0 THEN u.LastAttackTime - dt
                   ELSE u.LastAttackTime
             isMoving == Distance(u.Position, u.Target) > GetCollisionRadius(u)
             pos == IF isMoving
                    THEN Add(u.Position, NormalizeMul(Sub(u.Target, u.Position), u.Speed * dt))
                    ELSE u.Position
         IN  [u EXCEPT !.LastAttackTime = cd, !.Position = pos]

\* Unit.Update: cooldown, then the move toward Target (animation left out)
UnitUpdate(u, dt) ==
    IF ~u.IsAlive THEN u
    ELSE LET cd == IF u.LastAttackTime > 0 THEN Max(u.LastAttackTime - dt, 0)
                   ELSE u.LastAttackTime
             isMoving == Distance(u.Position, u.Target) > GetCollisionRadius(u)
             pos == IF isMoving
                    THEN Add(u.Position, NormalizeMul(Sub(u.Target, u.Position), u.Speed * dt))
                    ELSE u.Position
         IN  [u EXCEPT !.LastAttackTime = cd, !.Position = pos]

MoveTo(u, target) == [u EXCEPT !.Target = target]

\* TakeDamage without the clamp at 0
TakeDamageNoClamp(u, damage) ==
    IF ~u.IsAlive THEN u
    ELSE IF u.HP - damage <= 0 THEN [u EXCEPT !.HP = u.HP - damage, !.IsAlive = FALSE]
    ELSE [u EXCEPT !.HP = u.HP - damage]

TakeDamage(u, damage) ==
    IF ~u.IsAlive THEN u
    ELSE IF u.HP - damage <= 0 THEN [u EXCEPT !.HP = 0, !.IsAlive = FALSE]
    ELSE [u EXCEPT !.HP = u.HP - damage]

\* the damage without the floor of 1
AttackDamageNoFloor(u, target) ==
    u.AttackPower + (IF u.Type = UnitTypeMage THEN u.MagicPower ELSE 0) - target.Defense

\* damage Attack computes once its checks have passed
AttackDamage(u, target) ==
    LET baseDamage == u.AttackPower + (IF u.Type = UnitTypeMage THEN u.MagicPower ELSE 0)
        damage == baseDamage - target.Defense
    IN  IF damage < 1 THEN 1 ELSE damage

EffectiveRange(u, target) == u.Range + GetCollisionRadius(u) + GetCollisionRadius(target)

\* the checks of Attack without the range check
AttackExecutesAnyRange(u, target) ==
    /\ CanAttack(u)
    /\ target.IsAlive

\* whether Attack gets past its early returns
AttackExecutes(u, target) ==
    /\ CanAttack(u)
    /\ target.IsAlive
    /\ Distance(u.Position, target.Position) <= EffectiveRange(u, target)

\* Unit.Attack on the unit table us: [us, ret]
Attack(us, a, t) ==
    IF ~AttackExecutes(us[a], us[t]) THEN [us |-> us, ret |-> 0]
    ELSE LET damage == AttackDamage(us[a], us[t])
         IN  [us |-> [us EXCEPT ![t] = TakeDamage(us[t], damage),
                                ![a].LastAttackTime = us[a].AttackCooldown],
              ret |-> damage]

\* StartRetreating flipping the flag
StartRetreatingToggle(u, exitPoint) ==
    [u EXCEPT !.IsRetreating = ~u.IsRetreating, !.Target = exitPoint]

StartRetreating(u, exitPoint) == [u EXCEPT !.IsRetreating = TRUE, !.Target = exitPoint]

IsCollidingWith(u, other) ==
    /\ u.IsAlive
    /\ other.IsAlive
    /\ Distance(u.Position, other.Position) < GetCollisionRadius(u) + GetCollisionRadius(other)

\* Unit.ResolveCollision on the unit table us; exact records whether the half
\* overlap is a whole number of length units
ResolveCollision(st, a, b) ==
    LET us == st.us
        distance == Distance(us[a].Position, us[b].Position)
        combinedRadius == GetCollisionRadius(us[a]) + GetCollisionRadius(us[b])
        overlap == combinedRadius - distance
        push == NormalizeMul(Sub(us[b].Position, us[a].Position), overlap \div 2)
    IN  IF ~us[a].IsAlive \/ ~us[b].IsAlive THEN st
        ELSE IF distance < combinedRadius /\ distance > 0
        THEN [us |-> [us EXCEPT ![a].Position = Sub(us[a].Position, push),
                                ![b].Position = Add(us[b].Position, push)],
              exact |-> st.exact /\ overlap % 2 = 0]
        ELSE st

-----------------------------------------------------------------------------
(* Unit type table: a decoded units.toml as the battle is given one.  The   *)
(* values are inputs; HP is about a tenth of the shipped files' so that a   *)
(* battle ends within the explored time, and heavy_infantry's Defense       *)
(* exceeds every Attack so that the damage floor is met.                    *)

UnitTable ==
    [infantry |-> [HP |-> 10, Attack |-> 15, Defense |-> 10, Speed |-> 320,
                   Range |-> Px(15), MagicPower |-> 0, Size |-> 10],
     archer |-> [HP |-> 6, Attack |-> 12, Defense |-> 5, Speed |-> 280,
                 Range |-> Px(800), MagicPower |-> 0, Size |-> 10],
     mage |-> [HP |-> 5, Attack |-> 8, Defense |-> 3, Speed |-> 240,
               Range |-> Px(600), MagicPower |-> 20, Size |-> 10],
     heavy_infantry |-> [HP |-> 12, Attack |-> 18, Defense |-> 30, Speed |-> 200,
                         Range |-> Px(15), MagicPower |-> 0, Size |-> 12]]

\* common denominator of the health fractions HP/MaxHP
HPDen ==
    LET hs == {UnitTable[t].HP : t \in DOMAIN UnitTable}
        Common(n) == \A h \in hs : n % h = 0
    IN  CHOOSE n \in 1..1000 : Common(n) /\ \A m \in 1..(n - 1) : ~Common(m)

-----------------------------------------------------------------------------
(* AIBehavior *)

\* calculateTargetScore times ScoreDen (distance * 0.05 px = distance / 1600)
ScoreDen == 1600 * HPDen

GetHealthPercentageScaled(u) == IF u.MaxHP = 0 THEN 0 ELSE (u.HP * HPDen) \div u.MaxHP

calculateTargetScore(unit, enemy, distance) ==
    1000 * ScoreDen
    - distance * HPDen
    + (HPDen - GetHealthPercentageScaled(enemy)) * 30 * 1600
    + (IF enemy.IsLeader THEN 50 * ScoreDen ELSE 0)
    + (IF distance <= unit.Range THEN 100 * ScoreDen ELSE 0)
    + (CASE enemy.Type = UnitTypeMage -> 20 * ScoreDen
         [] enemy.Type = UnitTypeArcher -> 15 * ScoreDen
         [] enemy.Type = UnitTypeInfantry -> 10 * ScoreDen
         [] OTHER -> 0)

\* selectTarget without the sight range filter
selectTargetAnyDistance(us, u, enemies) ==
    LET Step(best, e) ==
            LET distance == Distance(us[u].Position, us[e].Position)
                score == calculateTargetScore(us[u], us[e], distance)
            IN  IF ~us[e].IsAlive \/ us[e].IsRetreating THEN best
                ELSE IF score > best.score THEN [target |-> e, score |-> score]
                ELSE best
    IN  Fold(Step, [target |-> Nil, score |-> -ScoreDen], enemies).target

\* selectTarget: the new TargetEnemy
selectTarget(us, u, enemies) ==
    LET Step(best, e) ==
            LET distance == Distance(us[u].Position, us[e].Position)
                score == calculateTargetScore(us[u], us[e], distance)
            IN  IF ~us[e].IsAlive \/ us[e].IsRetreating THEN best
                ELSE IF distance > GetSightRange(us[u]) THEN best
                ELSE IF score > best.score THEN [target |-> e, score |-> score]
                ELSE best
    IN  Fold(Step, [target |-> Nil, score |-> -ScoreDen], enemies).target

isRangedUnit(unit) == unit.Type = UnitTypeArcher \/ unit.Type = UnitTypeMage

\* decideAction letting every unit type retreat
decideActionAllRetreat(unit, target, distance) ==
    LET effectiveDistance == distance - GetCollisionRadius(unit) - GetCollisionRadius(target)
        pr == unit.AI.PreferredRange
    IN  IF effectiveDistance <= unit.Range /\ CanAttack(unit) THEN AIActionAttack
        ELSE IF 10 * effectiveDistance > 12 * pr THEN AIActionApproach
        ELSE IF 10 * effectiveDistance < 8 * pr THEN AIActionRetreat
        ELSE IF effectiveDistance <= unit.Range THEN AIActionHold
        ELSE AIActionApproach

\* decideAction: the new CurrentAction
decideAction(unit, target, distance) ==
    LET effectiveDistance == distance - GetCollisionRadius(unit) - GetCollisionRadius(target)
        pr == unit.AI.PreferredRange
    IN  IF effectiveDistance <= unit.Range /\ CanAttack(unit) THEN AIActionAttack
        ELSE IF 10 * effectiveDistance > 12 * pr THEN AIActionApproach
        ELSE IF 10 * effectiveDistance < 8 * pr /\ isRangedUnit(unit) THEN AIActionRetreat
        ELSE IF effectiveDistance <= unit.Range THEN AIActionHold
        ELSE AIActionApproach

moveTowardsTarget(unit, target) ==
    LET currentDistance == Distance(unit.Position, target.Position)
        collisionBuffer == GetCollisionRadius(unit) + GetCollisionRadius(target)
        targetDistance == (unit.AI.PreferredRange * 9) \div 10 + collisionBuffer
        moveDistance == Min(currentDistance - targetDistance, Px(50))
        toward == Sub(target.Position, unit.Position)
    IN  IF currentDistance > targetDistance
        THEN MoveTo(unit, Add(unit.Position, NormalizeMul(toward, moveDistance)))
        ELSE MoveTo(unit, Add(unit.Position, NormalizeMul(toward, Px(20))))

\* moveAwayFromTarget without the clamp to the playable rectangle
moveAwayFromTargetNoClamp(unit, target) ==
    LET currentDistance == Distance(unit.Position, target.Position)
        collisionBuffer == GetCollisionRadius(unit) + GetCollisionRadius(target)
        targetDistance == (unit.AI.PreferredRange * 11) \div 10 + collisionBuffer
        moveDistance == targetDistance - currentDistance
        away == Sub(unit.Position, target.Position)
        targetPos == Add(unit.Position, NormalizeMul(away, moveDistance))
    IN  IF moveDistance > 0 THEN MoveTo(unit, targetPos) ELSE unit

moveAwayFromTarget(unit, target) ==
    LET currentDistance == Distance(unit.Position, target.Position)
        collisionBuffer == GetCollisionRadius(unit) + GetCollisionRadius(target)
        targetDistance == (unit.AI.PreferredRange * 11) \div 10 + collisionBuffer
        moveDistance == targetDistance - currentDistance
        away == Sub(unit.Position, target.Position)
        targetPos == Add(unit.Position, NormalizeMul(away, moveDistance))
    IN  IF moveDistance > 0
        THEN MoveTo(unit, Vec(Max(Px(50), Min(Px(974), targetPos.X)),
                              Max(Px(100), Min(Px(700), targetPos.Y))))
        ELSE unit

executeAction(unit, target) ==
    CASE unit.AI.CurrentAction = AIActionApproach -> moveTowardsTarget(unit, target)
      [] unit.AI.CurrentAction = AIActionRetreat -> moveAwayFromTarget(unit, target)
      [] unit.AI.CurrentAction = AIActionAttack -> unit
      [] unit.AI.CurrentAction = AIActionHold -> [unit EXCEPT !.Target = unit.Position]
      [] unit.AI.CurrentAction = AIActionIdle -> [unit EXCEPT !.Target = unit.Position]

\* the tail of AIBehavior.Update, once selectTarget has set TargetEnemy = target
AIDecide(st, u, target) ==
    LET selected == [st.us[u] EXCEPT !.AI.LastDecisionTime = 0, !.AI.TargetEnemy = target]
        distance == Distance(selected.Position, st.us[target].Position)
        action == decideAction(selected, st.us[target], distance)
    IN  IF target = Nil \/ ~st.us[target].IsAlive
        THEN [st EXCEPT !.us[u] = [selected EXCEPT !.AI.CurrentAction = AIActionIdle],
                        !.decided = @ \cup {u}]
        ELSE [st EXCEPT !.us[u] = executeAction([selected EXCEPT !.AI.CurrentAction = action],
                                                st.us[target]),
                        !.decided = @ \cup {u}]

\* AIBehavior.Update without the decision cooldown
AIUpdateNoGate(st, u, enemies, dt) ==
    IF ~st.us[u].IsAlive \/ st.us[u].IsRetreating THEN st
    ELSE AIDecide(st, u, selectTarget(st.us, u, enemies))

\* AIBehavior.Update of unit u against the enemy list; st.decided collects the
\* units whose decision cycle ran
\* AIBehavior.Update without the return on a dead or retreating unit
AIUpdateOnAny(st, u, enemies, dt) ==
    IF st.us[u].AI.LastDecisionTime + dt < st.us[u].AI.DecisionCooldown
    THEN [st EXCEPT !.us[u].AI.LastDecisionTime = @ + dt]
    ELSE AIDecide(st, u, selectTarget(st.us, u, enemies))

AIUpdate(st, u, enemies, dt) ==
    IF ~st.us[u].IsAlive \/ st.us[u].IsRetreating THEN st
    ELSE IF st.us[u].AI.LastDecisionTime + dt < st.us[u].AI.DecisionCooldown
    THEN [st EXCEPT !.us[u].AI.LastDecisionTime = @ + dt]
    ELSE AIDecide(st, u, selectTarget(st.us, u, enemies))

-----------------------------------------------------------------------------
(* Group *)

FormationRadius == Px(50)

NewGroup(id, armyID, leader, members, leaderPosition) ==
    [ID |-> id,
     Leader |-> leader,
     Members |-> members,
     Formation |-> [Type |-> "circle", Radius |-> FormationRadius, Spacing |-> Px(20)],
     ArmyID |-> armyID,
     targetPosition |-> leaderPosition]

\* members that are alive and not retreating, in member order
getAliveMembers(us, g) == SelectSeq(g.Members, LAMBDA m : us[m].IsAlive /\ ~us[m].IsRetreating)

\* (cos, sin)(i * 2 pi / n) * radius, for the angles that keep the group on
\* its line or on the axes
CircleOffset(i, n, radius) ==
    CASE i = 0 -> Vec(radius, 0)
      [] 2 * i = n -> Vec(-radius, 0)
      [] 4 * i = n -> Vec(0, radius)
      [] 4 * i = 3 * n -> Vec(0, -radius)

updateCircleFormation(us, g) ==
    LET aliveMembers == getAliveMembers(us, g)
        n == Len(aliveMembers)
        Place(acc, i) ==
            LET m == aliveMembers[i]
            IN  IF acc[m].IsRetreating THEN acc
                ELSE [acc EXCEPT ![m] = MoveTo(acc[m],
                         Add(g.targetPosition, CircleOffset(i - 1, n, g.Formation.Radius)))]
    IN  Fold(Place, us, [i \in 1..n |-> i])

\* handleLeaderDeath sending both armies to the left edge
handleLeaderDeathLeftOnly(us, g) ==
    LET Retreat(acc, m) ==
            LET exitPoint == Vec(Px(-100), acc[m].Position.Y)
            IN  IF acc[m].IsAlive /\ ~acc[m].IsRetreating
                THEN [acc EXCEPT ![m] = StartRetreating(acc[m], exitPoint)]
                ELSE acc
    IN  Fold(Retreat, us, g.Members)

handleLeaderDeath(us, g) ==
    LET Retreat(acc, m) ==
            LET exitPoint == Vec(IF acc[m].ArmyID = 1 THEN Px(1124) ELSE Px(-100),
                                 acc[m].Position.Y)
            IN  IF acc[m].IsAlive /\ ~acc[m].IsRetreating
                THEN [acc EXCEPT ![m] = StartRetreating(acc[m], exitPoint)]
                ELSE acc
    IN  Fold(Retreat, us, g.Members)

\* Group.Update past the leader check, with the anchor chosen by the leader's
\* distance to its Target before the leader's move
GroupFollowStaleAnchor(st, gid, us1, dt) ==
    LET g == st.gs[gid]
        leader == us1[g.Leader]
        before == st.us[g.Leader]
        anchor == IF Distance(before.Position, before.Target) > Px(5)
                  THEN leader.Target ELSE leader.Position
        g1 == [g EXCEPT !.targetPosition = anchor]
        Member(acc, m) == IF acc[m].IsAlive THEN [acc EXCEPT ![m] = UnitUpdate(acc[m], dt)]
                          ELSE acc
    IN  [st EXCEPT !.us = Fold(Member, updateCircleFormation(us1, g1), g.Members),
                   !.gs[gid] = g1]

\* the living-leader branch of Group.Update, after the leader's own Update
GroupFollow(st, gid, us1, dt) ==
    LET g == st.gs[gid]
        leader == us1[g.Leader]
        anchor == IF Distance(leader.Position, leader.Target) > Px(5)
                  THEN leader.Target ELSE leader.Position
        g1 == [g EXCEPT !.targetPosition = anchor]
        Member(acc, m) == IF acc[m].IsAlive THEN [acc EXCEPT ![m] = UnitUpdate(acc[m], dt)]
                          ELSE acc
    IN  [st EXCEPT !.us = Fold(Member, updateCircleFormation(us1, g1), g.Members),
                   !.gs[gid] = g1]

\* Group.Update of group gid on st = [us, gs, ...]
GroupUpdate(st, gid, dt) ==
    LET g == st.gs[gid]
    IN  IF ~st.us[g.Leader].IsAlive
        THEN [st EXCEPT !.us = handleLeaderDeath(st.us, g)]
        ELSE GroupFollow(st, gid, [st.us EXCEPT ![g.Leader] = UnitUpdate(st.us[g.Leader], dt)],
                         dt)

GroupGetAllUnits(g) == <<g.Leader>> \o g.Members

GroupGetAliveCount(us, g) ==
    (IF us[g.Leader].IsAlive THEN 1 ELSE 0)
    + Len(SelectSeq(g.Members, LAMBDA m : us[m].IsAlive))

GroupIsDefeated(us, g) == GroupGetAliveCount(us, g) = 0

-----------------------------------------------------------------------------
(* Army: ar[a] is the sequence of the group numbers of army a *)

ArmyUpdate(st, a, dt) ==
    LET Step(acc, gid) == GroupUpdate(acc, gid, dt)
    IN  Fold(Step, st, st.ar[a])

GetAllUnits(st, a) ==
    LET Step(acc, gid) == acc \o GroupGetAllUnits(st.gs[gid])
    IN  Fold(Step, <<>>, st.ar[a])

\* GetAliveUnits without the filter on IsRetreating
GetAliveUnitsWithRetreating(st, a) ==
    SelectSeq(GetAllUnits(st, a), LAMBDA u : st.us[u].IsAlive)

GetAliveUnits(st, a) ==
    SelectSeq(GetAllUnits(st, a), LAMBDA u : st.us[u].IsAlive /\ ~st.us[u].IsRetreating)

\* GetTotalHealth as the fraction num / den
GetTotalHealth(st, a) ==
    LET all == GetAllUnits(st, a)
        Step(acc, u) == acc + GetHealthPercentageScaled(st.us[u])
    IN  IF Len(all) = 0 THEN [num |-> 0, den |-> 1]
        ELSE [num |-> Fold(Step, 0, all), den |-> Len(all)]

\* IsDefeated counting only the units that are alive and not retreating
IsDefeatedFighting(st, a) == Len(GetAliveUnits(st, a)) = 0

IsDefeated(st, a) == \A i \in 1..Len(st.ar[a]) : GroupIsDefeated(st.us, st.gs[st.ar[a][i]])

-----------------------------------------------------------------------------
(* BattleManager.  The phases of Update work on a record                    *)
(*   st = [us, gs, ar, exact, decided, attacks]                             *)
(* us, gs, ar: units, groups, armies; exact: no half length unit was lost   *)
(* in a collision; decided: units whose AI decision cycle ran; attacks: the *)
(* turns of the cooldown-ready units in processCombat, in order.            *)

updateAI(st, dt) ==
    LET unitsA == GetAliveUnits(st, 0)
        unitsB == GetAliveUnits(st, 1)
        StepA(acc, u) == AIUpdate(acc, u, unitsB, dt)
        StepB(acc, u) == AIUpdate(acc, u, unitsA, dt)
    IN  Fold(StepB, Fold(StepA, st, unitsA), unitsB)

\* the pairs <<i, j>>, i < j <= n, in the order of the two nested loops
IndexPairs(n) ==
    LET Row(i) == [k \in 1..(n - i) |-> <<i, i + k>>]
        Step(acc, i) == acc \o Row(i)
    IN  Fold(Step, <<>>, [i \in 1..n |-> i])

handleCollisions(st) ==
    LET allUnits == GetAliveUnits(st, 0) \o GetAliveUnits(st, 1)
        Step(acc, p) ==
            IF IsCollidingWith(acc.us[allUnits[p[1]]], acc.us[allUnits[p[2]]])
            THEN LET r == ResolveCollision([us |-> acc.us, exact |-> acc.exact],
                                           allUnits[p[1]], allUnits[p[2]])
                 IN  [acc EXCEPT !.us = r.us, !.exact = r.exact]
            ELSE acc
    IN  Fold(Step, st, IndexPairs(Len(allUnits)))

\* the inner loop of processCombat: the closest listed enemy within Range
FindTarget(us, a, enemies) ==
    LET Step(best, e) ==
            LET distance == Distance(us[a].Position, us[e].Position)
            IN  IF distance <= us[a].Range /\ distance < best.minDistance
                THEN [target |-> e, minDistance |-> distance]
                ELSE best
    IN  Fold(Step, [target |-> Nil, minDistance |-> us[a].Range + Px(1)], enemies).target

\* the end of attacker a's turn in processCombat: r is what Attack(target)
\* gave, or the untouched units and 0 when no target was found; the turn is
\* entered in st.attacks with at, the units as the turn found them
CombatTurn(st, a, target, r) ==
    [st EXCEPT !.us = r.us,
               !.attacks = Append(@, [attacker |-> a, target |-> target, ret |-> r.ret,
                                      at |-> st.us])]

\* the body of the loops of processCombat for attacker a, target chosen
CombatStep(st, a, target) ==
    IF target = Nil THEN CombatTurn(st, a, Nil, [us |-> st.us, ret |-> 0])
    ELSE CombatTurn(st, a, target, Attack(st.us, a, target))

\* one of the two loops of processCombat
CombatPass(st, attackers, enemies) ==
    LET Step(acc, a) ==
            IF ~CanAttack(acc.us[a]) THEN acc
            ELSE CombatStep(acc, a, FindTarget(acc.us, a, enemies))
    IN  Fold(Step, st, attackers)

processCombat(st) ==
    LET unitsA == GetAliveUnits(st, 0)
        unitsB == GetAliveUnits(st, 1)
    IN  CombatPass(CombatPass(st, unitsA, unitsB), unitsB, unitsA)

\* checkWinConditions with equal health fractions at the time limit given to A
checkWinConditionsTieToA(st, battleTime, timeLimit, cur) ==
    LET healthA == GetTotalHealth(st, 0)
        healthB == GetTotalHealth(st, 1)
    IN  IF battleTime >= timeLimit
        THEN [IsActive |-> FALSE,
              Winner |-> IF healthA.num * healthB.den >= healthB.num * healthA.den THEN 0
                         ELSE 1]
        ELSE IF IsDefeated(st, 0) /\ IsDefeated(st, 1) THEN [IsActive |-> FALSE, Winner |-> 2]
        ELSE IF IsDefeated(st, 0) THEN [IsActive |-> FALSE, Winner |-> 1]
        ELSE IF IsDefeated(st, 1) THEN [IsActive |-> FALSE, Winner |-> 0]
        ELSE cur

\* checkWinConditions with a single defeated army declared the winner
checkWinConditionsLoserWins(st, battleTime, timeLimit, cur) ==
    LET healthA == GetTotalHealth(st, 0)
        healthB == GetTotalHealth(st, 1)
    IN  IF battleTime >= timeLimit
        THEN [IsActive |-> FALSE,
              Winner |-> IF healthA.num * healthB.den > healthB.num * healthA.den THEN 0
                         ELSE IF healthB.num * healthA.den > healthA.num * healthB.den THEN 1
                         ELSE 2]
        ELSE IF IsDefeated(st, 0) /\ IsDefeated(st, 1) THEN [IsActive |-> FALSE, Winner |-> 2]
        ELSE IF IsDefeated(st, 0) THEN [IsActive |-> FALSE, Winner |-> 0]
        ELSE IF IsDefeated(st, 1) THEN [IsActive |-> FALSE, Winner |-> 1]
        ELSE cur

\* checkWinConditions leaving the winner as it was on equal health at the time limit
checkWinConditionsNoDraw(st, battleTime, timeLimit, cur) ==
    LET healthA == GetTotalHealth(st, 0)
        healthB == GetTotalHealth(st, 1)
    IN  IF battleTime >= timeLimit
        THEN [IsActive |-> FALSE,
              Winner |-> IF healthA.num * healthB.den > healthB.num * healthA.den THEN 0
                         ELSE IF healthB.num * healthA.den > healthA.num * healthB.den THEN 1
                         ELSE cur.Winner]
        ELSE IF IsDefeated(st, 0) /\ IsDefeated(st, 1) THEN [IsActive |-> FALSE, Winner |-> 2]
        ELSE IF IsDefeated(st, 0) THEN [IsActive |-> FALSE, Winner |-> 1]
        ELSE IF IsDefeated(st, 1) THEN [IsActive |-> FALSE, Winner |-> 0]
        ELSE cur

\* checkWinConditions with the time limit reached only once the clock is past it
checkWinConditionsPastLimit(st, battleTime, timeLimit, cur) ==
    LET healthA == GetTotalHealth(st, 0)
        healthB == GetTotalHealth(st, 1)
    IN  IF battleTime > timeLimit
        THEN [IsActive |-> FALSE,
              Winner |-> IF healthA.num * healthB.den > healthB.num * healthA.den THEN 0
                         ELSE IF healthB.num * healthA.den > healthA.num * healthB.den THEN 1
                         ELSE 2]
        ELSE IF IsDefeated(st, 0) /\ IsDefeated(st, 1) THEN [IsActive |-> FALSE, Winner |-> 2]
        ELSE IF IsDefeated(st, 0) THEN [IsActive |-> FALSE, Winner |-> 1]
        ELSE IF IsDefeated(st, 1) THEN [IsActive |-> FALSE, Winner |-> 0]
        ELSE cur

\* checkWinConditions on the outcome cur = [IsActive, Winner]
checkWinConditions(st, battleTime, timeLimit, cur) ==
    LET healthA == GetTotalHealth(st, 0)
        healthB == GetTotalHealth(st, 1)
    IN  IF battleTime >= timeLimit
        THEN [IsActive |-> FALSE,
              Winner |-> IF healthA.num * healthB.den > healthB.num * healthA.den THEN 0
                         ELSE IF healthB.num * healthA.den > healthA.num * healthB.den THEN 1
                         ELSE 2]
        ELSE IF IsDefeated(st, 0) /\ IsDefeated(st, 1) THEN [IsActive |-> FALSE, Winner |-> 2]
        ELSE IF IsDefeated(st, 0) THEN [IsActive |-> FALSE, Winner |-> 1]
        ELSE IF IsDefeated(st, 1) THEN [IsActive |-> FALSE, Winner |-> 0]
        ELSE cur

\* the body of Update on an active battle: each phase works on the result of
\* the one before; moved and collided keep the units as the movement phase and
\* the collision phase left them
Moved(st) == [st EXCEPT !.moved = st.us]

Collided(st) == [st EXCEPT !.collided = st.us]

\* the phases with combat moved ahead of the collision phase
PipelineCombatFirst(st, dt) ==
    Collided(handleCollisions(processCombat(updateAI(
        Moved(ArmyUpdate(ArmyUpdate(st, 0, dt), 1, dt)), dt))))

Pipeline(st, dt) ==
    processCombat(Collided(handleCollisions(updateAI(
        Moved(ArmyUpdate(ArmyUpdate(st, 0, dt), 1, dt)), dt))))

-----------------------------------------------------------------------------
(* Armies a battle starts from: built with NewUnit, NewGroup and AddGroup   *)

LineY == Px(400)

\* createGroup without the terrain modifiers: the leader at x, member k at
\* x + jitter[k]; b = [us, gs, ar, next]
AddNewGroup(b, armyID, leaderType, memberType, x, jitter) ==
    LET gid == Len(b.gs) + 1
        At(u, px) == [u EXCEPT !.Position = Vec(px, LineY), !.Target = Vec(px, LineY)]
        leader == At(NewUnit(b.next, leaderType, UnitTable[leaderType], TRUE, gid, armyID), x)
        member(k) == At(NewUnit(b.next + k, memberType, UnitTable[memberType], FALSE, gid,
                                armyID), x + jitter[k])
        memberIDs == [k \in 1..Len(jitter) |-> b.next + k]
    IN  [us |-> b.us \o <<leader>> \o [k \in 1..Len(jitter) |-> member(k)],
         gs |-> Append(b.gs, NewGroup(gid, armyID, b.next, memberIDs, Vec(x, LineY))),
         ar |-> [b.ar EXCEPT ![armyID] = Append(@, gid)],
         next |-> b.next + 1 + Len(jitter)]

NoArmies == [us |-> <<>>, gs |-> <<>>, ar |-> [a \in {0, 1} |-> <<>>], next |-> 1]

\* group descriptions: [army, leader, member, x, jitter]
Build(descs) ==
    LET Step(b, d) == AddNewGroup(b, d.army, d.leader, d.member, d.x, d.jitter)
    IN  Fold(Step, NoArmies, descs)

G(army, leader, member, x, jitter) ==
    [army |-> army, leader |-> leader, member |-> member, x |-> x, jitter |-> jitter]

Scenarios ==
    { <<>>,
      <<G(0, "infantry", "infantry", Px(500), <<>>)>>,
      <<G(0, "infantry", "infantry", Px(500), <<Px(-10)>>),
        G(1, "infantry", "infantry", Px(510), <<>>)>>,
      <<G(0, "infantry", "infantry", Px(500), <<>>),
        G(1, "infantry", "infantry", Px(518), <<>>)>>,
      <<G(0, "mage", "mage", Px(500), <<Px(-10)>>),
        G(1, "infantry", "infantry", Px(520), <<Px(19)>>)>>,
      <<G(0, "infantry", "infantry", Px(500), <<Px(-20), Px(-10)>>),
        G(1, "heavy_infantry", "archer", Px(512), <<Px(10)>>)>>,
      <<G(0, "infantry", "infantry", Px(500), <<>>),
        G(1, "mage", "mage", Px(530), <<>>)>>,
      <<G(0, "archer", "archer", Px(500), <<>>),
        G(1, "infantry", "infantry", Px(600), <<Px(5)>>)>> }

TimeLimits == {2, 22}

-----------------------------------------------------------------------------
(* State and actions *)

(* SceneManager and ResultScene.  A value handed over as interface{} is a  *)
(* record with its dynamic type in kind.                                    *)

SceneTitle == "SceneTitle"
SceneBattle == "SceneBattle"
SceneResult == "SceneResult"

NilData == [kind |-> "nil"]
StringData(str) == [kind |-> "string", value |-> str]
GameDataPtr(gd) == [kind |-> "*GameData", value |-> gd]

\* NewSceneManager with a registered ResultScene from NewResultScene
NewSceneManager ==
    [currentScene |-> SceneTitle,
     transition |-> [IsTransitioning |-> FALSE, ToScene |-> SceneTitle, Progress |-> 0],
     gameData |-> [CurrentStage |-> "", CurrentPreset |-> ""],
     result |-> [winner |-> "", selectedItem |-> 0]]

\* GetWinnerName; the names stand for the Japanese literals of the code
GetWinnerName(winner) ==
    CASE winner = 0 -> "army A"
      [] winner = 1 -> "army B"
      [] winner = 2 -> "draw"
      [] OTHER -> "undetermined"

\* SceneManager.TransitionTo: data is used only if it is a map with a stage or
\* a preset entry
TransitionTo(sm, sceneType, data) ==
    IF sm.currentScene = sceneType THEN sm
    ELSE LET started == [sm EXCEPT !.transition.IsTransitioning = TRUE,
                                   !.transition.ToScene = sceneType,
                                   !.transition.Progress = 0]
         IN  IF data.kind = "map"
             THEN [started EXCEPT !.gameData =
                       [CurrentStage |-> IF "stage" \in DOMAIN data.value
                                         THEN data.value["stage"] ELSE @.CurrentStage,
                        CurrentPreset |-> IF "preset" \in DOMAIN data.value
                                          THEN data.value["preset"] ELSE @.CurrentPreset]]
             ELSE started

\* ResultScene.OnEnter on the result scene rs
ResultOnEnter(rs, data) ==
    [winner |-> IF data.kind = "string" THEN data.value ELSE rs.winner,
     selectedItem |-> 0]

\* frames a transition takes: Progress grows by 1.0 / 60.0 / 0.5 a frame and in
\* float64 reaches 1.0 with the 31st addition
TransitionFrames == 31

State == [us |-> units, gs |-> groups, ar |-> armies, exact |-> TRUE,
          decided |-> {}, attacks |-> <<>>, moved |-> units, collided |-> units]

Init ==
    \E sc \in Scenarios, tl \in TimeLimits :
        LET b == Build(sc)
        IN  /\ units = b.us
            /\ groups = b.gs
            /\ armies = b.ar
            /\ nextUnitID = b.next
            /\ BattleTime = 0
            /\ TimeLimit = tl
            /\ IsActive = FALSE
            /\ Winner = -1
            /\ battles = 0
            /\ log = [op |-> "NewBattleManager"]
            /\ scenes = NewSceneManager

StartBattle ==
    /\ battles < MaxBattles
    /\ IsActive' = TRUE
    /\ BattleTime' = 0
    /\ Winner' = -1
    /\ battles' = battles + 1
    /\ log' = [op |-> "StartBattle"]
    /\ UNCHANGED <<units, groups, armies, TimeLimit, nextUnitID, scenes>>

\* the tail of Update: fought is the state the combat phase left
UpdateEnd(fought, outcome, dt) ==
    /\ units' = fought.us
    /\ groups' = fought.gs
    /\ IsActive' = outcome.IsActive
    /\ Winner' = outcome.Winner
    /\ log' = [op |-> "Update", dt |-> dt, ran |-> TRUE,
               moved |-> fought.moved,
               decided |-> fought.decided,
               collided |-> fought.collided,
               attacks |-> fought.attacks,
               exact |-> fought.exact]

UpdateRun(fought, dt) ==
    UpdateEnd(fought,
              checkWinConditions(fought, BattleTime + dt, TimeLimit,
                                 [IsActive |-> IsActive, Winner |-> Winner]),
              dt)

\* Update without the early return on a battle that is not Active
UpdateNoGuard(dt) ==
    /\ BattleTime' = BattleTime + dt
    /\ UpdateRun(Pipeline(State, dt), dt)
    /\ UNCHANGED <<armies, TimeLimit, nextUnitID, battles, scenes>>

\* BattleManager.Update on the battle's own state
BattleUpdate(dt) ==
    /\ IF ~IsActive
       THEN /\ log' = [op |-> "Update", dt |-> dt, ran |-> FALSE]
            /\ UNCHANGED <<units, groups, BattleTime, IsActive, Winner>>
       ELSE /\ BattleTime' = BattleTime + dt
            /\ UpdateRun(Pipeline(State, dt), dt)
    /\ UNCHANGED <<armies, TimeLimit, nextUnitID, battles>>

\* BattleManager.Update called on its own
Update(dt) ==
    /\ BattleUpdate(dt)
    /\ UNCHANGED scenes

Next ==
    \/ StartBattle
    \/ \E dt \in 1..MaxDt : Update(dt)

Spec == Init /\ [][Next]_vars

-----------------------------------------------------------------------------
(* Two units on their own: the methods of Unit called directly, on any pair *)
(* of unit types at any of the distances Gaps.                              *)

Gaps == {Px(10), Px(21), Px(22), Px(606), Px(607)}

\* damages handed to TakeDamage directly
Damages == {4, 20}

\* time steps handed to Unit.Update directly: half an attack cooldown, a whole one
UnitDts == {10, 20}

Placed(u, x) == [u EXCEPT !.Position = Vec(x, LineY), !.Target = Vec(x, LineY)]

UnitInit ==
    \E ta \in DOMAIN UnitTable, tt \in DOMAIN UnitTable, d \in Gaps :
        /\ units = <<Placed(NewUnit(1, ta, UnitTable[ta], TRUE, 1, 0), Px(500)),
                     Placed(NewUnit(2, tt, UnitTable[tt], TRUE, 2, 1), Px(500) + d)>>
        /\ groups = <<>>
        /\ armies = NoArmies.ar
        /\ nextUnitID = 3
        /\ BattleTime = 0
        /\ TimeLimit = 0
        /\ IsActive = FALSE
        /\ Winner = -1
        /\ battles = 0
        /\ log = [op |-> "NewUnit"]
        /\ scenes = NewSceneManager

UnitFrame == UNCHANGED <<scenes, groups, armies, nextUnitID, BattleTime, TimeLimit, IsActive,
                         Winner, battles>>

\* units[a].Attack(units[t]); pre keeps the units as the call found them
CallAttack(a, t) ==
    /\ a # t
    /\ units' = Attack(units, a, t).us
    /\ log' = [op |-> "Attack", attacker |-> a, target |-> t,
               ret |-> Attack(units, a, t).ret, pre |-> units]
    /\ UnitFrame

CallTakeDamage(u, damage) ==
    /\ units' = [units EXCEPT ![u] = TakeDamage(@, damage)]
    /\ log' = [op |-> "TakeDamage", unit |-> u, damage |-> damage, pre |-> units]
    /\ UnitFrame

CallUpdate(u, dt) ==
    /\ units' = [units EXCEPT ![u] = UnitUpdate(@, dt)]
    /\ log' = [op |-> "Update", unit |-> u, dt |-> dt, ran |-> FALSE, pre |-> units]
    /\ UnitFrame

UnitNext ==
    \/ CallAttack(1, 2)
    \/ \E u \in DOMAIN units, damage \in Damages : CallTakeDamage(u, damage)
    \/ \E dt \in UnitDts : CallUpdate(1, dt)

UnitSpec == UnitInit /\ [][UnitNext]_vars

-----------------------------------------------------------------------------
(* One unit and two enemies on their own: AIBehavior.Update of unit 1       *)
(* called directly with a list of enemies, between calls that hurt, kill or *)
(* send off the enemies and that put unit 1's attack on cooldown.           *)

\* unit 1's type; where enemy 2 and enemy 3 stand relative to unit 1
AISelfTypes == {"infantry", "mage"}

AIGaps2 == {Px(10), Px(20), Px(400), Px(700), Px(5001)}

AITypes3 == {"infantry", "archer"}

AIGaps3 == {Px(-10), Px(22)}

\* the enemy lists handed to AIBehavior.Update
EnemyLists == {<<>>, <<2, 3>>, <<3, 2>>}

AIInit ==
    \E ts \in AISelfTypes, t2 \in DOMAIN UnitTable, d2 \in AIGaps2,
       t3 \in AITypes3, d3 \in AIGaps3, l3 \in BOOLEAN :
        /\ units = <<Placed(NewUnit(1, ts, UnitTable[ts], TRUE, 1, 0), Px(500)),
                     Placed(NewUnit(2, t2, UnitTable[t2], TRUE, 2, 1), Px(500) + d2),
                     Placed(NewUnit(3, t3, UnitTable[t3], l3, 2, 1), Px(500) + d3)>>
        /\ groups = <<>>
        /\ armies = NoArmies.ar
        /\ nextUnitID = 4
        /\ BattleTime = 0
        /\ TimeLimit = 0
        /\ IsActive = FALSE
        /\ Winner = -1
        /\ battles = 0
        /\ log = [op |-> "NewUnit"]
        /\ scenes = NewSceneManager

\* units[u].AI.Update(units[u], enemies, dt)
CallAIUpdate(u, enemies, dt) ==
    /\ units' = AIUpdate(State, u, enemies, dt).us
    /\ log' = [op |-> "AIUpdate", unit |-> u, enemies |-> enemies, dt |-> dt]
    /\ UnitFrame

\* units[u].StartRetreating with the exit point of u's army
CallStartRetreating(u) ==
    /\ units' = [units EXCEPT ![u] = StartRetreating(@,
                     Vec(IF @.ArmyID = 1 THEN Px(1124) ELSE Px(-100), @.Position.Y))]
    /\ log' = [op |-> "StartRetreating", unit |-> u]
    /\ UnitFrame

AINext ==
    \/ \E enemies \in EnemyLists, dt \in UnitDts : CallAIUpdate(1, enemies, dt)
    \/ \E damage \in Damages : CallTakeDamage(3, damage)
    \/ \E u \in {2, 3} : CallStartRetreating(u)
    \/ CallAttack(1, 2)

AISpec == AIInit /\ [][AINext]_vars

-----------------------------------------------------------------------------
(* Two units on their own: Unit.ResolveCollision called directly on units   *)
(* placed apart, touching, overlapping and on the same point.               *)

\* where unit 2 stands relative to unit 1; the collision radii are 3 px and
\* 3.6 px, and every overlap is an even number of length units
CollisionGaps == {0, Px(1), Px(-2), Px(5), Px(6), Px(100)}

CollisionInit ==
    \E ta \in DOMAIN UnitTable, tt \in DOMAIN UnitTable, d \in CollisionGaps :
        /\ units = <<Placed(NewUnit(1, ta, UnitTable[ta], TRUE, 1, 0), Px(500)),
                     Placed(NewUnit(2, tt, UnitTable[tt], TRUE, 2, 1), Px(500) + d)>>
        /\ groups = <<>>
        /\ armies = NoArmies.ar
        /\ nextUnitID = 3
        /\ BattleTime = 0
        /\ TimeLimit = 0
        /\ IsActive = FALSE
        /\ Winner = -1
        /\ battles = 0
        /\ log = [op |-> "NewUnit"]
        /\ scenes = NewSceneManager

\* units[a].ResolveCollision(units[b]); pre keeps the units as the call found them
CallResolveCollision(a, b) ==
    /\ a # b
    /\ units' = ResolveCollision([us |-> units, exact |-> TRUE], a, b).us
    /\ log' = [op |-> "ResolveCollision", a |-> a, b |-> b, pre |-> units,
               exact |-> ResolveCollision([us |-> units, exact |-> TRUE], a, b).exact]
    /\ UnitFrame

CollisionNext ==
    \/ \E a \in DOMAIN units, b \in DOMAIN units : CallResolveCollision(a, b)
    \/ \E u \in DOMAIN units, damage \in Damages : CallTakeDamage(u, damage)

CollisionSpec == CollisionInit /\ [][CollisionNext]_vars

-----------------------------------------------------------------------------
(* Army construction: CreatePresetArmy called on a new BattleManager, once  *)
(* for each army as the battle scene does, with a data manager whose unit   *)
(* table may lack a type and a stage that gives one or three deployment     *)
(* points.                                                                  *)

\* the shipped table's cavalry entry, in the units of UnitTable
CavalryConfig == [HP |-> 9, Attack |-> 20, Defense |-> 8, Speed |-> 560,
                  Range |-> Px(20), MagicPower |-> 0, Size |-> 15]

FullTable == [t \in DOMAIN UnitTable \cup {"cavalry"} |->
                 IF t = "cavalry" THEN CavalryConfig ELSE UnitTable[t]]

\* the table without the type t
Without(t) == [x \in DOMAIN FullTable \ {t} |-> FullTable[x]]

\* unit tables a data manager may hold
DataTables == {FullTable, Without("cavalry"), Without("archer"), Without("infantry")}

\* preset names: "balanced", "offensive" and "defensive" stand for the three
\* names the switch knows, "other" for any other string
PresetTypes == {"balanced", "offensive", "defensive", "other"}

GC(leaderType, memberType, count) ==
    [leaderType |-> leaderType, memberType |-> memberType, count |-> count]

\* groupConfigs of createBalancedArmy / createOffensiveArmy / createDefensiveArmy
GroupConfigs(presetType) ==
    CASE presetType = "offensive" ->
             <<GC("cavalry", "cavalry", 2), GC("archer", "archer", 4),
               GC("infantry", "infantry", 3)>>
      [] presetType = "defensive" ->
             <<GC("heavy_infantry", "heavy_infantry", 3), GC("infantry", "archer", 4),
               GC("mage", "mage", 2)>>
      [] OTHER ->
             <<GC("infantry", "infantry", 4), GC("archer", "archer", 3),
               GC("mage", "infantry", 2)>>

\* numbers of deployment points a stage gives an army
PointCounts == {1, 3}

\* the stage's deployment points of army armyID, on the line
DeploymentPoints(armyID, n) ==
    [i \in 1..n |-> IF armyID = 0 THEN Px(150 + 50 * i) ELSE Px(850 - 50 * i)]

\* the offset rand.Intn(40) - 20 of a member from its leader: the ends of its
\* range, one draw used for every member of a call
Jitters == {Px(-20), Px(19)}

\* createUnit never advancing the counter
createUnitIDStuck(next, k) == next

\* the id createUnit gives the unit it creates after k earlier calls, the
\* counter standing at next before them: NewUnit(bm.nextUnitID, ...) and then
\* bm.nextUnitID++
createUnitID(next, k) == next + k

\* createGroup followed by AddGroup on b = [us, gs, ar, next]: a failed
\* lookup in the table makes createGroup return nil, which AddGroup appends
createGroup(b, armyID, config, x, table, jitter) ==
    IF config.leaderType \notin DOMAIN table THEN [b EXCEPT !.ar[armyID] = Append(@, Nil)]
    ELSE IF config.memberType \notin DOMAIN table THEN [b EXCEPT !.ar[armyID] = Append(@, Nil)]
    ELSE LET gid == Len(b.gs) + 1
             leader == Placed(NewUnit(createUnitID(b.next, 0), config.leaderType,
                                      table[config.leaderType], TRUE, gid, armyID), x)
             member(k) == Placed(NewUnit(createUnitID(b.next, k), config.memberType,
                                         table[config.memberType], FALSE, gid, armyID),
                                 x + jitter)
             memberIDs == [k \in 1..config.count |-> b.next + k]
         IN  [us |-> b.us \o <<leader>> \o [k \in 1..config.count |-> member(k)],
              gs |-> Append(b.gs, NewGroup(gid, armyID, b.next, memberIDs, Vec(x, LineY))),
              ar |-> [b.ar EXCEPT ![armyID] = Append(@, gid)],
              next |-> createUnitID(b.next, 1 + config.count)]

\* the loop of create...Army: one group for each config that has a point
createArmy(b, armyID, presetType, points, table, jitter) ==
    LET configs == GroupConfigs(presetType)
        Step(acc, i) == IF i > Len(points) THEN acc
                        ELSE createGroup(acc, armyID, configs[i], points[i], table, jitter)
    IN  Fold(Step, b, [i \in 1..Len(configs) |-> i])

\* what CreatePresetArmy gives its caller: army.GetAllUnits() for the debug
\* output dereferences a nil group and panics; otherwise the error is nil
PresetReturn(ar, armyID) ==
    IF \E k \in DOMAIN ar[armyID] : ar[armyID][k] = Nil THEN "panic" ELSE "nil"

SetupInit ==
    /\ units = NoArmies.us
    /\ groups = NoArmies.gs
    /\ armies = NoArmies.ar
    /\ nextUnitID = NoArmies.next
    /\ BattleTime = 0
    /\ TimeLimit \in TimeLimits
    /\ IsActive = FALSE
    /\ Winner = -1
    /\ battles = 0
    /\ log = [op |-> "NewBattleManager"]
    /\ scenes = NewSceneManager

\* CreatePresetArmy(armyID, presetType, dataManager); a panic ends the program
CreatePresetArmy(armyID, presetType, table, n, jitter) ==
    LET built == createArmy([us |-> units, gs |-> groups, ar |-> armies, next |-> nextUnitID],
                            armyID, presetType, DeploymentPoints(armyID, n), table, jitter)
    IN  /\ armies[armyID] = <<>>
        /\ log.op = "CreatePresetArmy" => log.ret # "panic"
        /\ units' = built.us
        /\ groups' = built.gs
        /\ armies' = built.ar
        /\ nextUnitID' = built.next
        /\ log' = [op |-> "CreatePresetArmy", army |-> armyID, presetType |-> presetType,
                   types |-> DOMAIN table, points |-> n,
                   pre |-> units, ret |-> PresetReturn(built.ar, armyID)]
        /\ UNCHANGED <<BattleTime, TimeLimit, IsActive, Winner, battles, scenes>>

SetupNext ==
    \E armyID \in {0, 1}, presetType \in PresetTypes, table \in DataTables,
       n \in PointCounts, jitter \in Jitters :
        CreatePresetArmy(armyID, presetType, table, n, jitter)

SetupSpec == SetupInit /\ [][SetupNext]_vars

-----------------------------------------------------------------------------
(* The duel: one infantry unit in each army, 10 px apart, with the shipped  *)
(* table's infantry values and no terrain modification.                     *)

DuelInfantry == [HP |-> 100, Attack |-> 15, Defense |-> 10, Speed |-> 320,
                 Range |-> Px(15), MagicPower |-> 0, Size |-> 10]

\* the stage's time limit, in 1/20 s: 30 s, more than the 20 cooldowns of 1 s
\* that 20 attacks take
DuelTimeLimit == 600

\* frame times of the duel, in 1/20 s: one decision period, one and a half;
\* every tick runs the decision cycle
DuelDts == {2, 3}

DuelInit ==
    /\ units = <<Placed(NewUnit(1, "infantry", DuelInfantry, TRUE, 1, 0), Px(500)),
                 Placed(NewUnit(2, "infantry", DuelInfantry, TRUE, 2, 1), Px(510))>>
    /\ groups = <<NewGroup(1, 0, 1, <<>>, Vec(Px(500), LineY)),
                  NewGroup(2, 1, 2, <<>>, Vec(Px(510), LineY))>>
    /\ armies = [a \in {0, 1} |-> <<a + 1>>]
    /\ nextUnitID = 3
    /\ BattleTime = 0
    /\ TimeLimit = DuelTimeLimit
    /\ IsActive = FALSE
    /\ Winner = -1
    /\ battles = 0
    /\ log = [op |-> "NewBattleManager"]
    /\ scenes = NewSceneManager

\* a battle is started while none is running
DuelStart ==
    /\ ~IsActive
    /\ StartBattle

\* a battle is run with one frame time
DuelUpdate(dt) ==
    /\ log.op = "Update" => log.dt = dt
    /\ Update(dt)

DuelNext ==
    \/ DuelStart
    \/ \E dt \in DuelDts : DuelUpdate(dt)

\* the clock of an active battle advances by a frame time
ClockAdvances ==
    /\ IsActive
    /\ BattleTime' \in {BattleTime + dt : dt \in DuelDts}

\* the battle is started, and the game loop keeps calling Update on an active
\* battle
DuelSpec ==
    DuelInit /\ [][DuelNext]_vars /\ WF_vars(DuelStart) /\ WF_BattleTime(ClockAdvances)

-----------------------------------------------------------------------------
(* Battles in which a leader falls early, run like the duel: an army of two *)
(* groups whose second group fights on after the first is routed, and       *)
(* armies of one group.                                                     *)

RoutScenarios ==
    { <<G(0, "infantry", "infantry", Px(580), <<Px(-10)>>),
        G(0, "mage", "mage", Px(1210), <<>>),
        G(1, "mage", "mage", Px(600), <<>>)>>,
      <<G(0, "infantry", "infantry", Px(500), <<Px(-20), Px(-10)>>),
        G(1, "heavy_infantry", "archer", Px(512), <<Px(10)>>)>>,
      <<G(0, "mage", "mage", Px(500), <<Px(-10)>>),
        G(1, "infantry", "infantry", Px(520), <<Px(19)>>)>> }

RoutInit ==
    \E sc \in RoutScenarios, tl \in TimeLimits :
        LET b == Build(sc)
        IN  /\ units = b.us
            /\ groups = b.gs
            /\ armies = b.ar
            /\ nextUnitID = b.next
            /\ BattleTime = 0
            /\ TimeLimit = tl
            /\ IsActive = FALSE
            /\ Winner = -1
            /\ battles = 0
            /\ log = [op |-> "NewBattleManager"]
            /\ scenes = NewSceneManager

RoutSpec == RoutInit /\ [][DuelNext]_vars

-----------------------------------------------------------------------------
(* Two leaders on their own, one per army, within sight of each other, in a *)
(* battle whose time limit is far beyond the time either needs to walk the  *)
(* gap between them.                                                        *)

StandOffTypes == {<<"infantry", "infantry">>, <<"archer", "infantry">>}

StandOffGaps == {Px(10), Px(18), Px(40)}

StandOffTimeLimit == 200

StandOffInit ==
    \E ts \in StandOffTypes, d \in StandOffGaps :
        /\ units = <<Placed(NewUnit(1, ts[1], UnitTable[ts[1]], TRUE, 1, 0), Px(500)),
                     Placed(NewUnit(2, ts[2], UnitTable[ts[2]], TRUE, 2, 1), Px(500) + d)>>
        /\ groups = <<NewGroup(1, 0, 1, <<>>, Vec(Px(500), LineY)),
                      NewGroup(2, 1, 2, <<>>, Vec(Px(500) + d, LineY))>>
        /\ armies = [a \in {0, 1} |-> <<a + 1>>]
        /\ nextUnitID = 3
        /\ BattleTime = 0
        /\ TimeLimit = StandOffTimeLimit
        /\ IsActive = FALSE
        /\ Winner = -1
        /\ battles = 0
        /\ log = [op |-> "NewBattleManager"]
        /\ scenes = NewSceneManager

StandOffSpec ==
    StandOffInit /\ [][DuelNext]_vars /\ WF_vars(DuelStart) /\ WF_BattleTime(ClockAdvances)

-----------------------------------------------------------------------------
(* AIBehavior.Update called directly on a unit that may have been hurt,     *)
(* killed or sent retreating between the calls, facing one enemy.           *)

AIHaltNext ==
    \/ \E enemies \in {<<>>, <<2>>}, dt \in {1, DecisionCooldown} : CallAIUpdate(1, enemies, dt)
    \/ \E damage \in Damages : CallTakeDamage(1, damage)
    \/ CallStartRetreating(1)

AIHaltSpec == UnitInit /\ [][AIHaltNext]_vars

-----------------------------------------------------------------------------
(* A ranged unit anywhere on or off the playable rectangle with an enemy    *)
(* next to it: Attack and AIBehavior.Update called directly.                *)

RetreatXs == {Px(30), Px(60), Px(500), Px(960), Px(1000)}

RetreatYs == {Px(80), LineY, Px(720)}

\* where the enemy stands, seen from the unit
RetreatOffsets == {Vec(Px(10), 0), Vec(Px(-10), 0), Vec(0, Px(10)), Vec(0, Px(-10)), Vec(0, 0)}

RetreatInit ==
    \E t \in {UnitTypeArcher, UnitTypeMage}, x \in RetreatXs, y \in RetreatYs,
       off \in RetreatOffsets :
        LET At(u, v) == [u EXCEPT !.Position = v, !.Target = v]
        IN  /\ units = <<At(NewUnit(1, t, UnitTable[t], TRUE, 1, 0), Vec(x, y)),
                         At(NewUnit(2, "infantry", UnitTable["infantry"], TRUE, 2, 1),
                            Add(Vec(x, y), off))>>
            /\ groups = <<>>
            /\ armies = NoArmies.ar
            /\ nextUnitID = 3
            /\ BattleTime = 0
            /\ TimeLimit = 0
            /\ IsActive = FALSE
            /\ Winner = -1
            /\ battles = 0
            /\ log = [op |-> "NewUnit"]
            /\ scenes = NewSceneManager

RetreatNext ==
    \/ CallAttack(1, 2)
    \/ \E enemies \in {<<>>, <<2>>} : CallAIUpdate(1, enemies, DecisionCooldown)

RetreatSpec == RetreatInit /\ [][RetreatNext]_vars

-----------------------------------------------------------------------------
(* The game loop from the battle scene on: SceneManager.Update runs the     *)
(* battle scene, which runs the battle, until the battle ends; then the     *)
(* transition to the result scene, then the result scene.  The state starts *)
(* where BattleSceneUnified.Initialize has started a battle of two leaders. *)

SceneTypes == {<<"infantry", "infantry">>, <<"archer", "infantry">>, <<"infantry", "archer">>}

SceneTimeLimit == 60

\* keys pressed in a frame of the result scene
ResultKeys == {"none", "ArrowUp", "ArrowDown", "Escape"}

SceneInit ==
    \E ts \in SceneTypes, d \in StandOffGaps :
        /\ units = <<Placed(NewUnit(1, ts[1], UnitTable[ts[1]], TRUE, 1, 0), Px(500)),
                     Placed(NewUnit(2, ts[2], UnitTable[ts[2]], TRUE, 2, 1), Px(500) + d)>>
        /\ groups = <<NewGroup(1, 0, 1, <<>>, Vec(Px(500), LineY)),
                      NewGroup(2, 1, 2, <<>>, Vec(Px(500) + d, LineY))>>
        /\ armies = [a \in {0, 1} |-> <<a + 1>>]
        /\ nextUnitID = 3
        /\ BattleTime = 0
        /\ TimeLimit = SceneTimeLimit
        /\ IsActive = TRUE
        /\ Winner = -1
        /\ battles = 1
        /\ log = [op |-> "StartBattle"]
        /\ scenes = [NewSceneManager EXCEPT !.currentScene = SceneBattle]

\* SceneManager.Update with the battle scene current: BattleSceneUnified.Update,
\* a battle being run with one frame time
BattleSceneUpdate(dt) ==
    /\ ~scenes.transition.IsTransitioning
    /\ scenes.currentScene = SceneBattle
    /\ log.op = "Update" => log.dt = dt
    /\ BattleUpdate(dt)
    /\ scenes' = IF ~IsActive'
                 THEN TransitionTo(scenes, SceneResult, StringData(GetWinnerName(Winner')))
                 ELSE scenes

\* SceneManager.Update during a transition
TransitionStep ==
    /\ scenes.transition.IsTransitioning
    /\ LET progress == scenes.transition.Progress + 1
           to == scenes.transition.ToScene
       IN  scenes' = IF progress >= TransitionFrames
                     THEN [scenes EXCEPT
                               !.transition.Progress = progress,
                               !.transition.IsTransitioning = FALSE,
                               !.currentScene = to,
                               !.result = IF to = SceneResult
                                          THEN ResultOnEnter(@, GameDataPtr(scenes.gameData))
                                          ELSE @]
                     ELSE [scenes EXCEPT !.transition.Progress = progress]
    /\ log' = [op |-> "SceneManager.Update"]
    /\ UNCHANGED <<units, groups, armies, BattleTime, TimeLimit, IsActive, Winner,
                   nextUnitID, battles>>

\* SceneManager.Update with the result scene current: ResultScene.Update
ResultSceneUpdate(key) ==
    /\ ~scenes.transition.IsTransitioning
    /\ scenes.currentScene = SceneResult
    /\ scenes' =
           CASE key = "ArrowUp" ->
                    [scenes EXCEPT !.result.selectedItem = IF @ - 1 < 0 THEN 2 ELSE @ - 1]
             [] key = "ArrowDown" ->
                    [scenes EXCEPT !.result.selectedItem = IF @ + 1 >= 3 THEN 0 ELSE @ + 1]
             [] key = "Escape" -> TransitionTo(scenes, SceneTitle, NilData)
             [] OTHER -> scenes
    /\ log' = [op |-> "ResultScene.Update", key |-> key]
    /\ UNCHANGED <<units, groups, armies, BattleTime, TimeLimit, IsActive, Winner,
                   nextUnitID, battles>>

SceneNext ==
    \/ \E dt \in DuelDts : BattleSceneUpdate(dt)
    \/ TransitionStep
    \/ \E key \in ResultKeys : ResultSceneUpdate(key)

SceneSpec == SceneInit /\ [][SceneNext]_vars

-----------------------------------------------------------------------------
(* Vocabulary of the properties *)

\* the last step was an Update that ran its phases
Ran == log.op = "Update" /\ log.ran

UnitIDs == DOMAIN units

Enemies(u, e) == units[u].ArmyID # units[e].ArmyID

\* every unit of army a is dead (an army without units included)
AllDead(a) == \A u \in UnitIDs : units[u].ArmyID = a => ~units[u].IsAlive

\* mean of HP / MaxHP over the units of army a, as num / den (0 for no units)
Fraction(a) ==
    LET ids == [i \in 1..Len(units) |-> i]
        Sum(acc, u) == IF units[u].ArmyID = a
                       THEN [num |-> acc.num + (units[u].HP * HPDen) \div units[u].MaxHP,
                             den |-> acc.den + 1]
                       ELSE acc
        t == Fold(Sum, [num |-> 0, den |-> 0], ids)
    IN  IF t.den = 0 THEN [num |-> 0, den |-> 1] ELSE t

Higher(a, b) == Fraction(a).num * Fraction(b).den > Fraction(b).num * Fraction(a).den

\* the model's integer arithmetic lost nothing
ModelExact == Ran => log.exact

-----------------------------------------------------------------------------
(* C1: within one Update on an active battle the phases run in the order    *)
(* clock, movement, AI, collisions, combat, win check, each on the state    *)
(* the earlier ones left: an AI that decides Hold pins the unit to the      *)
(* position the movement phase gave it (not the one collisions push it to); *)
(* every combat turn sees the positions the collision phase left; the win   *)
(* check sees the advanced clock and the casualties of this tick's combat.  *)
C1_PhaseOrder ==
    Ran =>
        /\ \A u \in log.decided :
               units[u].AI.CurrentAction = AIActionHold
                   => units[u].Target = log.moved[u].Position
        /\ \A i \in DOMAIN log.attacks : \A u \in UnitIDs :
               log.attacks[i].at[u].Position = log.collided[u].Position
        /\ \A u \in UnitIDs : units[u].Position = log.collided[u].Position
        /\ IsActive => BattleTime < TimeLimit /\ ~AllDead(0) /\ ~AllDead(1)

C1_Witness ==
    /\ Ran
    /\ \E u \in log.decided : /\ units[u].AI.CurrentAction = AIActionHold
                               /\ log.collided[u].Position # log.moved[u].Position
    /\ \E i \in DOMAIN log.attacks : log.attacks[i].ret > 0

(* C2: at the win check of the tick in which the clock reaches the time     *)
(* limit the battle ends, won by the side with the strictly higher health   *)
(* fraction, drawn only when the fractions are equal, whether or not an     *)
(* army is defeated.                                                        *)
C2_TimeLimitWinner ==
    (Ran /\ BattleTime >= TimeLimit) =>
        /\ ~IsActive
        /\ Winner = (IF Higher(0, 1) THEN 0 ELSE IF Higher(1, 0) THEN 1 ELSE 2)

C2_Witness ==
    /\ Ran
    /\ BattleTime >= TimeLimit
    /\ Winner = 1
    /\ \E u \in UnitIDs : units[u].ArmyID = 1 /\ units[u].HP < units[u].MaxHP

(* C3: at a win check before the time limit, both armies defeated ends the  *)
(* battle in a draw, one army defeated ends it with the other side winning, *)
(* none defeated leaves it Active with the winner undetermined.             *)
C3_Elimination ==
    (Ran /\ BattleTime < TimeLimit) =>
        /\ (AllDead(0) /\ AllDead(1)) => (~IsActive /\ Winner = 2)
        /\ (AllDead(0) /\ ~AllDead(1)) => (~IsActive /\ Winner = 1)
        /\ (~AllDead(0) /\ AllDead(1)) => (~IsActive /\ Winner = 0)
        /\ (~AllDead(0) /\ ~AllDead(1)) => (IsActive /\ Winner = -1)

C3_Witness ==
    /\ Ran
    /\ BattleTime < TimeLimit
    /\ Winner = 1
    /\ \E i \in DOMAIN log.attacks : log.attacks[i].ret > 0

(* C4: an Update on a battle that is not Active, before StartBattle or      *)
(* after the end, changes neither the clock nor the winner nor any field of *)
(* any unit; the battle becomes Active only by StartBattle, which sets the  *)
(* clock to 0 and the winner to undetermined.                               *)
C4_InactiveNoOp ==
    [][ /\ (~IsActive /\ log'.op = "Update")
            => UNCHANGED <<units, groups, armies, BattleTime, Winner, IsActive>>
        /\ (~IsActive /\ IsActive')
            => (log'.op = "StartBattle" /\ BattleTime' = 0 /\ Winner' = -1) ]_vars

C4_Witness ==
    /\ log.op = "Update"
    /\ ~log.ran
    /\ ~IsActive
    /\ Winner # -1
    /\ BattleTime > 0
    /\ \E u \in UnitIDs : ~units[u].IsAlive

(* C5: every unit always has 0 <= HP <= MaxHP and is alive exactly when its *)
(* HP is positive; no step raises a unit's HP, and a unit whose HP is 0     *)
(* stays dead with HP 0.                                                    *)
C5_HPLatch ==
    /\ [](\A u \in UnitIDs : /\ 0 <= units[u].HP
                             /\ units[u].HP <= units[u].MaxHP
                             /\ units[u].IsAlive <=> units[u].HP > 0)
    /\ [][\A u \in UnitIDs : /\ units'[u].HP <= units[u].HP
                              /\ units[u].HP = 0
                                     => (units'[u].HP = 0 /\ ~units'[u].IsAlive)]_vars

\* a unit killed by a hit larger than the HP it had left
C5_Witness ==
    /\ Ran
    /\ \E i \in DOMAIN log.attacks :
           /\ log.attacks[i].target # Nil
           /\ log.attacks[i].ret > log.attacks[i].at[log.attacks[i].target].HP
           /\ units[log.attacks[i].target].HP = 0
           /\ ~units[log.attacks[i].target].IsAlive

\* the last step was a direct call of Attack
Attacked == log.op = "Attack"

\* the call found none of the three reasons for Attack to fail
Executable ==
    LET a == log.pre[log.attacker]
        t == log.pre[log.target]
    IN  /\ a.IsAlive
        /\ a.LastAttackTime <= 0
        /\ t.IsAlive
        /\ Distance(a.Position, t.Position) <= a.Range + 24 * a.Size + 24 * t.Size

C7_AttackFails ==
    (Attacked /\ ~Executable) => (log.ret = 0 /\ units = log.pre)

\* a ready attacker and a living target just beyond the effective range
C7_Witness ==
    /\ Attacked
    /\ log.pre[log.attacker].IsAlive
    /\ log.pre[log.attacker].LastAttackTime = 0
    /\ log.pre[log.target].IsAlive
    /\ ~Executable
    /\ log.ret = 0

\* the turns of the combat phase of the last Update
Turns == DOMAIN log.attacks

\* enemy e is living, not retreating and at most reach away from the
\* attacker of turn i, at the moment of that turn
InReach(i, e, reach) ==
    LET at == log.attacks[i].at
        a == log.attacks[i].attacker
    IN  /\ Enemies(a, e)
        /\ at[e].IsAlive
        /\ ~at[e].IsRetreating
        /\ Distance(at[a].Position, at[e].Position) <= reach

(* C8: in the combat phase a living, non-retreating, cooldown-ready unit    *)
(* with a living, non-retreating enemy no farther than Range plus both      *)
(* collision radii lands an attack in that tick.                            *)
C8_EffectiveRangeCombat ==
    Ran => \A i \in Turns :
               LET at == log.attacks[i].at
                   a == log.attacks[i].attacker
               IN  (\E e \in UnitIDs :
                        InReach(i, e, at[a].Range + 24 * at[a].Size + 24 * at[e].Size))
                       => log.attacks[i].ret > 0

(* C9: in the combat phase a living, non-retreating, cooldown-ready unit    *)
(* has one turn; if enemies that are living at that moment lie within its   *)
(* raw Range it attacks one of them, the closest, the first listed among    *)
(* equally close ones; if none does it attacks nobody.                      *)
C9_CombatTarget ==
    Ran =>
        /\ \A i, j \in Turns : log.attacks[i].attacker = log.attacks[j].attacker => i = j
        /\ \A i \in Turns :
               LET at == log.attacks[i].at
                   a == log.attacks[i].attacker
                   t == log.attacks[i].target
                   near == {e \in UnitIDs : InReach(i, e, at[a].Range)}
                   d(e) == Distance(at[a].Position, at[e].Position)
               IN  IF near = {} THEN log.attacks[i].ret = 0
                   ELSE /\ t \in near
                        /\ log.attacks[i].ret > 0
                        /\ \A e \in near : d(t) < d(e) \/ (d(t) = d(e) /\ t <= e)

(* C10: a retreating unit is no combat participant: no AI decision selects  *)
(* it as target, it has no turn in the combat phase, no attack is made on   *)
(* it, and its HP does not change, the tick in which it starts retreating   *)
(* included.                                                                *)
C10_RetreatingInvisible ==
    /\ [](Ran =>
            /\ \A u \in log.decided :
                   units[u].AI.TargetEnemy # Nil
                       => ~log.moved[units[u].AI.TargetEnemy].IsRetreating
            /\ \A i \in Turns :
                   /\ ~log.attacks[i].at[log.attacks[i].attacker].IsRetreating
                   /\ log.attacks[i].target # Nil
                          => ~log.attacks[i].at[log.attacks[i].target].IsRetreating)
    /\ [][\A u \in UnitIDs : units'[u].IsRetreating => units'[u].HP = units[u].HP]_vars

\* a living retreating unit within the raw Range of an enemy that had its
\* turn and attacked nobody, while an enemy's AI decided and found no target
C10_Witness ==
    /\ Ran
    /\ \E i \in Turns : \E u \in UnitIDs :
           /\ Enemies(log.attacks[i].attacker, u)
           /\ units[u].IsAlive
           /\ units[u].IsRetreating
           /\ Distance(units[u].Position, units[log.attacks[i].attacker].Position)
                  <= units[log.attacks[i].attacker].Range
           /\ log.attacks[i].target = Nil
           /\ \E v \in log.decided : Enemies(v, u) /\ units[v].AI.TargetEnemy = Nil

\* the members of group g, as a set
MemberSet(g) == {groups[g].Members[k] : k \in DOMAIN groups[g].Members}

(* C11: in every Group.Update that finds the leader dead, each member that  *)
(* is alive and not retreating starts retreating with its target on its     *)
(* army's edge (x = -100 for army 0, 1124 for army 1) at its own y; members *)
(* already retreating, and dead ones, are left as they are.                 *)
C11_LeaderDeathCascade ==
    [][(log'.op = "Update" /\ log'.ran) =>
          \A g \in DOMAIN groups : ~units[groups[g].Leader].IsAlive =>
              \A m \in MemberSet(g) :
                  IF units[m].IsAlive /\ ~units[m].IsRetreating
                  THEN /\ log'.moved[m].IsRetreating
                       /\ log'.moved[m].Target
                              = Vec(IF units[m].ArmyID = 0 THEN Px(-100) ELSE Px(1124),
                                    units[m].Position.Y)
                       /\ units'[m].IsRetreating
                       /\ units'[m].Target = log'.moved[m].Target
                  ELSE log'.moved[m] = units[m]]_vars

\* a living member of army 1 on its way to the right edge, its leader dead
C11_Witness ==
    /\ Ran
    /\ \E g \in DOMAIN groups : \E m \in MemberSet(g) :
           /\ ~units[groups[g].Leader].IsAlive
           /\ units[m].ArmyID = 1
           /\ units[m].IsAlive
           /\ units[m].IsRetreating
           /\ units[m].Target = Vec(Px(1124), LineY)

\* the two exit points handleLeaderDeath can hand to unit u
ExitPoints(u) == {Vec(Px(-100), units[u].Position.Y), Vec(Px(1124), units[u].Position.Y)}

(* C12: no step of a battle takes a unit from retreating to not retreating, *)
(* and on every unit a second StartRetreating with the same exit point      *)
(* gives the state the first call gave.                                     *)
C12_RetreatLatch ==
    /\ [](\A u \in UnitIDs : \A p \in ExitPoints(u) :
             /\ StartRetreating(units[u], p).IsRetreating
             /\ StartRetreating(StartRetreating(units[u], p), p)
                    = StartRetreating(units[u], p))
    /\ [][\A u \in UnitIDs : units[u].IsRetreating => units'[u].IsRetreating]_vars

\* a unit still retreating in a battle started again, after an AI pass
C12_Witness ==
    /\ Ran
    /\ battles = 2
    /\ log.decided # {}
    /\ \E u \in UnitIDs : units[u].IsAlive /\ units[u].IsRetreating

\* member m of group g is alive and not retreating, and so is g's leader alive
InFormation(g, m) ==
    /\ units[groups[g].Leader].IsAlive
    /\ m \in MemberSet(g)
    /\ units[m].IsAlive
    /\ ~units[m].IsRetreating

(* C13: at the end of every tick each alive, non-retreating member of a     *)
(* group with a living leader has its formation slot as movement target: a  *)
(* point at the formation radius from the group's anchor.                   *)
C13_FormationOverridesAI ==
    Ran => \A g \in DOMAIN groups : \A m \in UnitIDs :
               InFormation(g, m)
                   => Distance(units[m].Target, groups[g].targetPosition)
                          = groups[g].Formation.Radius

\* unit u went through the AI pass of the last Update without a decision
\* cycle: alive, not retreating, held back by the decision cooldown
Gated(u) ==
    /\ log.moved[u].IsAlive
    /\ ~log.moved[u].IsRetreating
    /\ u \notin log.decided

(* C14: on a tick whose decision cycle the cooldown skips, the last decided *)
(* action is still executed: after Hold or Idle the movement target is the  *)
(* unit's current position, after Approach or Retreat it is recomputed from *)
(* the current positions of the unit and its target enemy.                  *)
C14_ExecutionEveryTick ==
    Ran => \A u \in UnitIDs : Gated(u) =>
               LET me == log.moved[u]
                   action == me.AI.CurrentAction
               IN  /\ action \in {AIActionHold, AIActionIdle}
                       => units[u].Target = me.Position
                   /\ (action \in {AIActionApproach, AIActionRetreat} /\ me.AI.TargetEnemy # Nil)
                       => units[u].Target
                              = executeAction(me, log.moved[me.AI.TargetEnemy]).Target

Decided == log.op = "AIUpdate"

\* the unit the call was made for, and the enemies of the list that are
\* alive, not retreating and within its sight range of 5000 px
Self == units[log.unit]

Visible ==
    {e \in {log.enemies[k] : k \in DOMAIN log.enemies} :
        /\ units[e].IsAlive
        /\ ~units[e].IsRetreating
        /\ Distance(Self.Position, units[e].Position) <= Px(5000)}

C17_NoTargetHalts ==
    Ran => \A u \in log.decided :
               units[u].AI.TargetEnemy = Nil => units[u].Target = log.moved[u].Position

\* place of enemy e in the list of the call
ListPlace(e) == CHOOSE k \in DOMAIN log.enemies : log.enemies[k] = e

\* the score of enemy e for the deciding unit, times ScoreDen, with the
\* in-range bonus given within reach of the unit: 1000 - distance * 0.05
\* + (1 - HP / MaxHP) * 30 + 50 for a leader + 100 in range + type bonus
Score(e, reach) ==
    LET distance == Distance(Self.Position, units[e].Position)
    IN  1000 * ScoreDen
        - distance * HPDen
        + (HPDen - (units[e].HP * HPDen) \div units[e].MaxHP) * 30 * 1600
        + (IF units[e].IsLeader THEN 50 * ScoreDen ELSE 0)
        + (IF distance <= reach THEN 100 * ScoreDen ELSE 0)
        + (CASE units[e].Type = "mage" -> 20 * ScoreDen
             [] units[e].Type = "archer" -> 15 * ScoreDen
             [] units[e].Type = "infantry" -> 10 * ScoreDen
             [] OTHER -> 0)

\* the unit's effective attack range against enemy e
Reach(e) == Self.Range + 24 * Self.Size + 24 * units[e].Size

(* C18: the target a decision cycle selects is, among the listed enemies    *)
(* alive, not retreating and in sight, one of maximal score, the first of   *)
(* the list among equals, the score counting the bonus of 100 for an enemy  *)
(* within the unit's effective attack range (Range plus both radii).        *)
C18_MaxScoreTarget ==
    (Decided /\ Visible # {}) =>
        LET t == Self.AI.TargetEnemy
        IN  /\ t \in Visible
            /\ \A e \in Visible :
                   \/ Score(t, Reach(t)) > Score(e, Reach(e))
                   \/ Score(t, Reach(t)) = Score(e, Reach(e)) /\ ListPlace(t) <= ListPlace(e)

\* the unit's distance to enemy e less both collision radii
EffectiveDistance(e) ==
    Distance(Self.Position, units[e].Position) - 24 * Self.Size - 24 * units[e].Size

\* the action the decision table gives against enemy e; the factors 1.2 and
\* 0.8 of the preferred distance are compared as exact fractions
Expected(e) ==
    LET d == EffectiveDistance(e)
        pref == Self.AI.PreferredRange
        ranged == Self.Type \in {"archer", "mage"}
    IN  IF d <= Self.Range /\ Self.IsAlive /\ Self.LastAttackTime <= 0 THEN "Attack"
        ELSE IF 10 * d > 12 * pref THEN "Approach"
        ELSE IF 10 * d < 8 * pref /\ ranged THEN "Retreat"
        ELSE IF d <= Self.Range THEN "Hold"
        ELSE "Approach"

Overlapped ==
    /\ log.op = "ResolveCollision"
    /\ log.pre[log.a].IsAlive
    /\ log.pre[log.b].IsAlive
    /\ Distance(log.pre[log.a].Position, log.pre[log.b].Position)
           < 24 * log.pre[log.a].Size + 24 * log.pre[log.b].Size

\* how far the call moved unit u
Displacement(u) == Sub(units[u].Position, log.pre[u].Position)

(* C20: ResolveCollision on two alive units closer than the sum of their    *)
(* collision radii leaves them exactly that sum apart, and moves the one by *)
(* the negative of the displacement of the other.                           *)
C20_CollisionSymmetry ==
    Overlapped =>
        /\ Distance(units[log.a].Position, units[log.b].Position)
               = 24 * units[log.a].Size + 24 * units[log.b].Size
        /\ Displacement(log.a) = Vec(-Displacement(log.b).X, -Displacement(log.b).Y)

\* the units of group g: its leader and its members
GroupUnits(g) == {groups[g].Leader} \cup MemberSet(g)

(* C21: Army.IsDefeated is true exactly when no group of the army has an    *)
(* alive unit, leader and members counted alike; an alive unit, retreating  *)
(* or not, keeps its army undefeated.                                       *)
C21_ArmyDefeated ==
    \A a \in {0, 1} :
        IsDefeated(State, a) <=>
            \A k \in DOMAIN armies[a] : \A u \in GroupUnits(armies[a][k]) : ~units[u].IsAlive

\* an army whose only alive units are retreating, its leaders dead
C21_Witness ==
    /\ Ran
    /\ \E a \in {0, 1} :
           /\ ~IsDefeated(State, a)
           /\ \A u \in UnitIDs :
                  (units[u].ArmyID = a /\ units[u].IsAlive)
                      => units[u].IsRetreating /\ ~units[u].IsLeader

\* the last step was a CreatePresetArmy
Created == log.op = "CreatePresetArmy"

\* the unit types the call looked up: those of the presets' groups that got a
\* deployment point
LookedUp ==
    LET configs == GroupConfigs(log.presetType)
    IN  UNION {{configs[i].leaderType, configs[i].memberType} :
                   i \in {k \in DOMAIN configs : k <= log.points}}

\* group entry k of army a is a group with a leader
Sound(a, k) ==
    /\ armies[a][k] \in DOMAIN groups
    /\ groups[armies[a][k]].Leader \in DOMAIN units

(* C22: a CreatePresetArmy that looks up a unit type missing from the unit  *)
(* table returns an error to its caller, and leaves no nil or leaderless    *)
(* group in the army.                                                       *)
C22_SetupFailsFast ==
    (Created /\ ~(LookedUp \subseteq log.types)) =>
        /\ log.ret = "error"
        /\ \A k \in DOMAIN armies[log.army] : Sound(log.army, k)

\* the units the last CreatePresetArmy created: units is in creation order
NewUnits == {i \in DOMAIN units : i > Len(log.pre)}

(* C23: every unit a CreatePresetArmy creates gets an id greater than the   *)
(* id of every unit created before it, in this call or an earlier one, for  *)
(* either army; so the ids of a battle's units are pairwise different and   *)
(* the counter stays above all of them.                                     *)
C23_UnitIDsIncrease ==
    /\ Created => \A i \in NewUnits : \A j \in DOMAIN units :
                      j < i => units[j].ID < units[i].ID
    /\ \A i, j \in DOMAIN units : i # j => units[i].ID # units[j].ID
    /\ \A i \in DOMAIN units : units[i].ID < nextUnitID

\* both armies set up, each with several groups, the second after the first
C23_Witness ==
    /\ Created
    /\ log.pre # <<>>
    /\ Len(armies[0]) > 1
    /\ Len(armies[1]) > 1
    /\ \E i \in NewUnits : \E j \in DOMAIN log.pre : units[i].ArmyID # units[j].ArmyID
    /\ \E i \in NewUnits : ~units[i].IsLeader

\* unit u landed an attack in the combat phase the log records
Landed(lg, u) == \E i \in DOMAIN lg.attacks : lg.attacks[i].attacker = u /\ lg.attacks[i].ret > 0

(* C24: a unit's remaining attack cooldown (LastAttackTime) is never        *)
(* negative and never above its AttackCooldown; CanAttack is true exactly   *)
(* for an alive unit whose remaining cooldown is 0.  A landed attack sets   *)
(* the remaining cooldown to AttackCooldown, a tick lowers it by no more    *)
(* than its frame time, and a unit lands an attack only in a tick in which  *)
(* it has run out: two landed attacks of a unit are at least AttackCooldown *)
(* of simulated time apart.                                                 *)
C24_AttackCooldown ==
    /\ [](\A u \in UnitIDs :
             /\ units[u].LastAttackTime >= 0
             /\ units[u].LastAttackTime <= units[u].AttackCooldown
             /\ CanAttack(units[u]) <=> (units[u].IsAlive /\ units[u].LastAttackTime = 0))
    /\ [][\A u \in UnitIDs :
             IF log'.op = "Update" /\ log'.ran
             THEN IF Landed(log', u)
                  THEN /\ units[u].LastAttackTime <= log'.dt
                       /\ units'[u].LastAttackTime = units[u].AttackCooldown
                  ELSE units'[u].LastAttackTime >= units[u].LastAttackTime - log'.dt
             ELSE units'[u].LastAttackTime = units[u].LastAttackTime]_vars

\* a unit lands an attack more than a cooldown into the first battle and is
\* back at its full cooldown, unable to attack
C24_Witness ==
    /\ Ran
    /\ battles = 1
    /\ BattleTime > AttackCooldownInit
    /\ \E u \in UnitIDs : /\ Landed(log, u)
                          /\ units[u].LastAttackTime = units[u].AttackCooldown
                          /\ ~CanAttack(units[u])

(* C25: in the duel both units are in the Attack state after the first tick *)
(* of the battle; every landed attack deals exactly 5 damage, so that a     *)
(* unit is dead exactly when it has received 20 hits (100 HP lost in steps  *)
(* of 5); and eventually both units are dead.                               *)
C25_Duel ==
    /\ []((Ran /\ battles = 1 /\ BattleTime = log.dt) =>
              \A u \in UnitIDs : units[u].AI.CurrentAction = "Attack")
    /\ [](/\ Ran => \A i \in DOMAIN log.attacks : log.attacks[i].ret \in {0, 5}
          /\ \A u \in UnitIDs : /\ (units[u].MaxHP - units[u].HP) % 5 = 0
                                /\ ~units[u].IsAlive <=> units[u].MaxHP - units[u].HP = 20 * 5)
    /\ <>(\A u \in UnitIDs : ~units[u].IsAlive)

\* the exit point of unit u: the map edge of its army, at the unit's own Y
ExitPoint(u) == Vec(IF units[u].ArmyID = 1 THEN Px(1124) ELSE Px(-100), units[u].Position.Y)

\* unit u is an alive member that was sent retreating by an earlier tick and
\* is farther from its exit point than its collision radius
OnRetreat(u) ==
    /\ units[u].IsAlive
    /\ units[u].IsRetreating
    /\ ~units[u].IsLeader
    /\ ~units[groups[units[u].GroupID].Leader].IsAlive
    /\ Distance(units[u].Position, ExitPoint(u)) > 24 * units[u].Size

(* C26: in every tick of an active battle after the one that sent it        *)
(* retreating, a surviving member of a group whose leader is dead comes     *)
(* closer to its exit point, until it is within its collision radius of it. *)
C26_RetreatMoves ==
    [][(IsActive /\ log'.op = "Update") =>
           \A u \in UnitIDs :
               OnRetreat(u) => Distance(units'[u].Position, ExitPoint(u))
                                   < Distance(units[u].Position, ExitPoint(u))]_vars

\* units u and v stood closer than the sum of their collision radii when the
\* collision phase of the last tick had ended
OverlapAfterCollisions(u, v) ==
    Distance(log.collided[u].Position, log.collided[v].Position)
        < 24 * units[u].Size + 24 * units[v].Size

(* C27: after the collision phase of a tick no two living units of the      *)
(* battle, of the same army or of different ones, are closer to each other  *)
(* than the sum of their collision radii.                                   *)
C27_NoOverlap ==
    Ran => \A u, v \in UnitIDs :
               (u # v /\ log.collided[u].IsAlive /\ log.collided[v].IsAlive)
                   => ~OverlapAfterCollisions(u, v)

\* a Group.Update of army a has run with the leader dead and a member alive:
\* the group has an alive member that is retreating
Routed(a) ==
    \E k \in DOMAIN armies[a] :
        /\ ~units[groups[armies[a][k]].Leader].IsAlive
        /\ \E m \in MemberSet(armies[a][k]) : units[m].IsAlive /\ units[m].IsRetreating

(* C28: once a Group.Update has run with the group's leader dead and a      *)
(* member alive, the retreating members stay alive and unhurt and the army  *)
(* is never defeated; a battle that ends afterwards ends by the time limit  *)
(* or by the defeat of the other army.                                      *)
C28_RoutedNeverDefeated ==
    /\ [][\A a \in {0, 1} :
             Routed(a) =>
                 /\ Routed(a)'
                 /\ ~AllDead(a)'
                 /\ ~IsDefeated(State, a)'
                 /\ \A u \in UnitIDs :
                        (units[u].IsAlive /\ units[u].IsRetreating)
                            => units'[u].IsAlive /\ units'[u].HP = units[u].HP]_vars
    /\ [](\A a \in {0, 1} :
             (Ran /\ ~IsActive /\ Routed(a))
                 => \/ BattleTime >= TimeLimit
                    \/ AllDead(1 - a) /\ Winner = a)

\* a battle lost by the army whose opponent's group was routed before
C28_Witness ==
    /\ Ran
    /\ ~IsActive
    /\ \E a \in {0, 1} : Routed(a) /\ AllDead(1 - a) /\ Winner = a /\ BattleTime < TimeLimit

\* army a was given at least one group, so it starts with a living leader
Fielded(a) == armies[a] # <<>>

\* unit u was alive when the combat phase of the last tick began and is dead now
KilledInCombat(u) ==
    /\ Ran
    /\ log.attacks # <<>>
    /\ log.attacks[1].at[u].IsAlive
    /\ ~units[u].IsAlive

(* C29: when both armies start with a living unit, no state has both armies *)
(* defeated and no battle ends in a draw before the time limit; a unit of   *)
(* army B killed during a tick has not attacked in that tick, and a tick    *)
(* that kills the last unit of an army leaves a living unit in the other.   *)
C29_NoMutualElimination ==
    (Fielded(0) /\ Fielded(1)) =>
          /\ ~(IsDefeated(State, 0) /\ IsDefeated(State, 1))
          /\ ~(AllDead(0) /\ AllDead(1))
          /\ (Ran /\ ~IsActive /\ Winner = 2) => BattleTime >= TimeLimit
          /\ \A u \in UnitIDs :
                 (KilledInCombat(u) /\ units[u].ArmyID = 1)
                     => \A i \in DOMAIN log.attacks : log.attacks[i].attacker # u
          /\ \A u \in UnitIDs :
                 (KilledInCombat(u) /\ AllDead(units[u].ArmyID))
                     => ~AllDead(1 - units[u].ArmyID)

\* army A's pass has killed the last unit of army B, which was ready to
\* attack and had an enemy within its range: it took no turn, and A has won
C29_Witness ==
    /\ Fielded(0)
    /\ AllDead(1)
    /\ ~AllDead(0)
    /\ Winner = 0
    /\ BattleTime < TimeLimit
    /\ \E u \in UnitIDs :
           /\ KilledInCombat(u)
           /\ units[u].ArmyID = 1
           /\ units[u].LastAttackTime <= 0
           /\ \E e \in UnitIDs :
                  /\ units[e].ArmyID = 0
                  /\ units[e].IsAlive
                  /\ ~units[e].IsRetreating
                  /\ Distance(units[u].Position, units[e].Position) <= units[u].Range

\* a unit has taken damage
Damaged == \E u \in UnitIDs : units[u].HP < units[u].MaxHP

\* both leaders are alive and each is within the other's sight range
InSight ==
    /\ \A u \in UnitIDs : units[u].IsAlive
    /\ \A u, v \in UnitIDs :
           Distance(units[u].Position, units[v].Position) <= GetSightRange(units[u])

(* C30: two opposing leaders on their own, alive and within sight of each   *)
(* other, do not stay that way for a whole battle without either taking     *)
(* damage: eventually the combat phase lands an attack, also when their AI  *)
(* has entered the Attack state.                                            *)
C30_NoStandOff == <>(~InSight \/ Damaged)

(* C31: after StartBattle the active flag and the winner agree: the winner  *)
(* is -1 while the battle is active; the Update that ends the battle sets   *)
(* the winner to 0, 1 or 2, and it stays until the next StartBattle.        *)
C31_OutcomeAgrees ==
    /\ [](battles >= 1 =>
             /\ IsActive => Winner = -1
             /\ ~IsActive => Winner \in {0, 1, 2})
    /\ [][/\ (IsActive /\ ~IsActive') => (log'.op = "Update" /\ Winner' \in {0, 1, 2})
          /\ (battles >= 1 /\ ~IsActive /\ log'.op # "StartBattle") => Winner' = Winner
          /\ Winner' # Winner =>
                 \/ log'.op = "StartBattle" /\ Winner' = -1
                 \/ IsActive /\ ~IsActive' /\ log'.op = "Update"]_vars

\* an Update called on a battle that has ended has left its winner in place
C31_Witness ==
    /\ battles >= 1
    /\ ~IsActive
    /\ Winner \in {0, 1, 2}
    /\ log.op = "Update"
    /\ ~log.ran

(* C32: every started battle ends: at the end of every Update the battle is *)
(* active only if its clock is below the time limit, the clock of an active *)
(* battle grows with every Update, and an active battle eventually becomes  *)
(* inactive, no later than the first tick whose clock reaches the limit.    *)
C32_BattleTerminates ==
    /\ [](log.op = "Update" => (IsActive => BattleTime < TimeLimit))
    /\ [][(IsActive /\ log'.op = "Update") =>
              /\ BattleTime' > BattleTime
              /\ BattleTime' >= TimeLimit => ~IsActive']_vars
    /\ (IsActive ~> ~IsActive)

\* the time limit has ended a battle in which nobody was hurt, on the first
\* tick whose clock reached it
C32_Witness ==
    /\ Ran
    /\ ~IsActive
    /\ BattleTime >= TimeLimit
    /\ BattleTime - log.dt < TimeLimit
    /\ ~Damaged

(* C33: after every Group.Update with a living leader the group's formation *)
(* anchor is the leader's Target if the leader, after its move of the tick, *)
(* is more than 5 px from that Target, and the leader's Position otherwise. *)
C33_FormationAnchor ==
    Ran =>
        \A gid \in DOMAIN groups :
            LET leader == log.moved[groups[gid].Leader]
            IN  leader.IsAlive =>
                    groups[gid].targetPosition =
                        IF Distance(leader.Position, leader.Target) > Px(5)
                        THEN leader.Target ELSE leader.Position

\* a leader has stopped short of its Target, within 5 px of it, and the anchor
\* is its Position, not its Target
C33_Witness ==
    /\ Ran
    /\ \E gid \in DOMAIN groups :
           LET leader == log.moved[groups[gid].Leader]
           IN  /\ leader.IsAlive
               /\ groups[gid].Members # <<>>
               /\ leader.Position # leader.Target
               /\ Distance(leader.Position, leader.Target) <= Px(5)
               /\ groups[gid].targetPosition = leader.Position

(* C34: AIBehavior.Update on a unit that is dead or already retreating      *)
(* changes nothing: its target enemy, current action, decision-time         *)
(* accumulator and movement target, and every other unit, stay as they were.*)
C34_HaltedAIUntouched ==
    [][log'.op = "AIUpdate" =>
          LET u == log'.unit
          IN  (~units[u].IsAlive \/ units[u].IsRetreating) =>
                  /\ units'[u].AI.TargetEnemy = units[u].AI.TargetEnemy
                  /\ units'[u].AI.CurrentAction = units[u].AI.CurrentAction
                  /\ units'[u].AI.LastDecisionTime = units[u].AI.LastDecisionTime
                  /\ units'[u].Target = units[u].Target
                  /\ units' = units]_vars

\* Update was called, with an enemy listed and a frame time that passes the
\* decision gate, on a retreating unit whose AI had a target, an action other
\* than Idle and a running accumulator
C34_Witness ==
    /\ log.op = "AIUpdate"
    /\ log.enemies # <<>>
    /\ log.dt >= DecisionCooldown
    /\ units[log.unit].IsAlive
    /\ units[log.unit].IsRetreating
    /\ units[log.unit].AI.TargetEnemy # Nil
    /\ units[log.unit].AI.CurrentAction # AIActionIdle
    /\ units[log.unit].AI.LastDecisionTime > 0

InPlayable(v) == Px(50) <= v.X /\ v.X <= Px(974) /\ Px(100) <= v.Y /\ v.Y <= Px(700)

(* C35: whenever the Retreat action writes a unit's movement target, the    *)
(* target lies in the playable rectangle 50 <= x <= 974, 100 <= y <= 700,   *)
(* wherever the unit and its target enemy are.                              *)
C35_RetreatInBounds ==
    (log.op = "AIUpdate" /\ units[log.unit].AI.CurrentAction = AIActionRetreat)
        => InPlayable(units[log.unit].Target)

\* a unit standing outside the playable rectangle has decided to retreat and
\* its movement target is on the rectangle's border
C35_Witness ==
    /\ log.op = "AIUpdate"
    /\ units[log.unit].AI.CurrentAction = AIActionRetreat
    /\ ~InPlayable(units[log.unit].Position)
    /\ units[log.unit].Target # units[log.unit].Position
    /\ InPlayable(units[log.unit].Target)

(* C36: when a battle has ended, the result scene entered at the end of the *)
(* scene transition holds as its winner the name GetWinnerName returned for *)
(* the ended battle (army A, army B or draw).                               *)
C36_ResultHoldsWinner ==
    scenes.currentScene = SceneResult =>
        /\ Winner \in {0, 1, 2}
        /\ scenes.result.winner = GetWinnerName(Winner)

====
